---- MODULE Spec2Model ----
(***************************************************************************)
(* BloombergClient (connectors/bloomberg-client.ts): the streaming session *)
(* with its reconnect timer, the subscription registry and the dispatch of *)
(* inbound market-data messages to the registered callbacks.               *)
(*                                                                         *)
(* The transport is the `ws` WebSocket.  What the model takes from it:     *)
(*   - a socket is CONNECTING, OPEN, CLOSING or CLOSED (readyState);       *)
(*   - 'open' is emitted once, from CONNECTING;                            *)
(*   - a failure emits 'error' and then 'close';                           *)
(*   - close() before the handshake is done aborts it: 'error', 'close';   *)
(*   - 'close' is emitted once per socket, last;                           *)
(*   - 'message' is emitted only while the socket is OPEN.                 *)
(* EventEmitter.emit('error') with no 'error' listener throws.             *)
(*                                                                         *)
(* ExcelConnector (connectors/excel/excel-connector.ts): live workbooks,   *)
(* their subscriptions with the client, the setInterval timers that flush  *)
(* a workbook to its file, and the writes in flight.                       *)
(***************************************************************************)
EXTENDS Integers, Sequences, FiniteSets, TLC

\* ------------------------------------------------------------------ bounds
\* WebSocket objects one client creates in a run (the first and the reconnects).
MaxSessions == 3
\* Control messages written to one session by subscribe()/unsubscribe().
MaxSent == 1
\* marketData messages whose deliveries are logged, in arrival order.
MaxLog == 2
\* Live ranges one ExcelConnector is given in a run, over all its
\* createLiveWorkbook calls.
MaxRanges == 3
\* workbook.xlsx.writeFile() calls in flight at once.
MaxWrites == 2

\* ------------------------------------------------------------------ values
\* An optional property that is absent (exchange?: string).
Undefined == "undefined"

\* SecurityIdentifier, reduced to what matchesSecurity reads.
Sec(t, e) == [ticker |-> t, exchange |-> e]

\* The securities inbound marketData messages carry.
TickSecurities ==
  { Sec("AAPL", "NASDAQ"), Sec("AAPL", "NYSE"), Sec("AAPL", Undefined),
    Sec("MSFT", "NASDAQ") }

\* The `securities` arguments of subscribe(): one entry, an entry without
\* exchange (the shape createLiveWorkbook builds), and a list of two
\* securities that names one of them twice.
SecurityLists ==
  { <<Sec("AAPL", "NASDAQ")>>,
    <<Sec("AAPL", Undefined)>>,
    <<Sec("AAPL", "NASDAQ"), Sec("MSFT", "NASDAQ"), Sec("AAPL", "NASDAQ")>> }

\* What a subscription's callback does when invoked: return, or throw.
Callbacks == {"returns", "throws"}

\* Identifiers: `sub_${Date.now()}_${Math.random()...}`.  The wall clock and the
\* random source are inputs, so the identifier is any value of the set.
SubIds == {"sub_1_a", "sub_1_b"}

NoSec == Sec(Undefined, Undefined)
NoMsg == [type |-> "none", security |-> NoSec]

\* Payloads of the 'message' event: text JSON.parse rejects, a JSON object of
\* another type, and marketData objects.
Messages ==
  { [type |-> "malformed", security |-> NoSec],
    [type |-> "heartbeat", security |-> NoSec] }
  \cup { [type |-> "marketData", security |-> s] : s \in TickSecurities }

\* Strings the ExcelConnector concatenates and tests with startsWith are
\* sequences of characters.  One workbook id is a prefix of the other.
WorkbookIds == { <<"w">>, <<"w", "2">> }

\* createLiveWorkbook(workbookId, ranges, filePath): each workbook has its file.
Targets ==
  { [workbookId |-> <<"w">>, filePath |-> "w.xlsx"],
    [workbookId |-> <<"w", "2">>, filePath |-> "w2.xlsx"] }

\* LiveDataRange, reduced to what createLiveWorkbook reads of it but the
\* fields and the period it passes on.
LiveRange(ws, tickers) == [worksheet |-> ws, securities |-> tickers]

\* The `ranges` arguments: one range, two ranges on two worksheets, two ranges
\* on one worksheet.
RangeLists ==
  { << LiveRange(<<"s">>, <<"AAPL">>) >>,
    << LiveRange(<<"s">>, <<"AAPL">>), LiveRange(<<"t">>, <<"MSFT">>) >>,
    << LiveRange(<<"s">>, <<"AAPL">>), LiveRange(<<"s">>, <<"MSFT">>) >> }

\* The fields of a tick: a value, or Undefined for a field it does not carry.
TickValues ==
  { [last |-> "v1", bid |-> "v1"], [last |-> "v2", bid |-> Undefined] }

\* marketData messages for a security of the live ranges.
ExcelMessages ==
  { [type |-> "marketData", security |-> Sec("AAPL", Undefined), values |-> v] :
      v \in TickValues }

\* How the HTTP request of a request/response operation ends: no response
\* (axios rejects), an error status with or without code and message in its
\* body (axios rejects), or a 2xx response whose body has the data array, has
\* no `data` property, or is null.
HttpOutcomes ==
  { "networkError", "errorWithBody", "errorNoBody", "okArray", "okNoData",
    "okNullBody" }

Operations ==
  { "getRealTimeData", "getHistoricalData", "getReferenceData",
    "searchSecurities" }

NoResult ==
  [op |-> "none", outcome |-> "none", rejected |-> FALSE, success |-> FALSE,
   data |-> Undefined, code |-> Undefined, message |-> Undefined]

\* config.enableWebSocket: true, false, or left out.
EnableWebSocketValues == {"true", "false", "omitted"}

VARIABLES
  enableWebSocket,  \* config.enableWebSocket
  errorListener,    \* an observer is registered for the client's 'error' signal
  socks,            \* readyState of every WebSocket created, in creation order
  wsClient,         \* this.wsClient: index into socks, 0 when undefined
  connected,        \* this.connected
  timers,           \* pending setTimeout(() => this.initializeWebSocket(), 5000)
  subscriptions,    \* this.subscriptions, in Map insertion order
  sent,             \* per socket, the control messages written to it while alive
  crashed,          \* an exception left a handler of the client uncaught
  disconnectCalled, \* disconnect() has been called
  lastMsg,          \* the payload the message handler just handled, or NoMsg
  invoked,          \* ids whose callback the last dispatch invoked, in order
  signals,          \* the signals the last step emitted, in order
  lastResult,       \* how the request the last step made ended, or NoResult
  arrived,          \* logged marketData messages, in arrival order
  delivered,        \* per id, the logged messages passed to its callback
  autoRefresh,      \* ExcelConnector: this.config.autoRefresh
  activeWorkbooks,  \* ExcelConnector: this.activeWorkbooks, id -> cell table
  liveRanges,       \* ExcelConnector: this.liveRanges, rangeId -> range
  updateIntervals,  \* ExcelConnector: this.updateIntervals, rangeId -> timer
  intervals,        \* the setInterval timers started and not cleared
  nextTimer,        \* the handle the next setInterval returns
  nextSub,          \* the number of the next identifier createLiveWorkbook's
                    \* subscribe() calls draw
  writes,           \* the writeFile() calls in flight, oldest first
  received,         \* per rangeId, the latest value of each field that
                    \* updateLiveRange was called with
  flushed,          \* the refreshLiveWorkbook run that just ended, or NoFlush
  excelSignals,     \* the signals the ExcelConnector emitted in the last step
  excelCall         \* the ExcelConnector method the last step called

clientVars ==
  << enableWebSocket, errorListener, socks, wsClient, connected, timers,
     subscriptions, sent, crashed, disconnectCalled, lastMsg, invoked,
     signals, lastResult >>

logVars == << arrived, delivered >>

excelVars ==
  << autoRefresh, activeWorkbooks, liveRanges, updateIntervals, intervals,
     nextTimer, nextSub, writes, received, flushed, excelSignals, excelCall >>

vars == << clientVars, logVars, excelVars >>

NoCall == [op |-> "none", workbook |-> <<>>, ranges |-> 0]
NoFlush == [workbook |-> <<>>, outcome |-> "none", stale |-> FALSE]

\* A step of the client that no ExcelConnector method and no ExcelConnector
\* callback takes part in.
ClientOnly ==
  /\ lastResult' = NoResult
  /\ excelSignals' = <<>>
  /\ excelCall' = NoCall
  /\ flushed' = NoFlush
  /\ UNCHANGED << arrived, delivered, autoRefresh, activeWorkbooks, liveRanges,
                  updateIntervals, intervals, nextTimer, nextSub, writes,
                  received >>

\* ----------------------------------------------------------------- helpers
RECURSIVE Count(_, _)
Count(x, s) ==
  IF s = <<>> THEN 0 ELSE (IF Head(s) = x THEN 1 ELSE 0) + Count(x, Tail(s))

Range(s) == { s[k] : k \in 1..Len(s) }

\* Map.has(id)
Has(subs, id) == \E k \in 1..Len(subs) : subs[k].id = id

\* Map.set(id, entry): a new key goes last, an existing key keeps its place.
MapSet(subs, entry) ==
  IF Has(subs, entry.id)
  THEN [k \in 1..Len(subs) |-> IF subs[k].id = entry.id THEN entry ELSE subs[k]]
  ELSE Append(subs, entry)

\* Map.delete(id)
RECURSIVE MapDelete(_, _)
MapDelete(subs, id) ==
  IF subs = <<>> THEN <<>>
  ELSE IF Head(subs).id = id THEN MapDelete(Tail(subs), id)
       ELSE <<Head(subs)>> \o MapDelete(Tail(subs), id)

\* WebSocket.close(): aborts a handshake, starts the closing handshake of an
\* open socket, does nothing otherwise.
CloseCall(rs) ==
  CASE rs = "CONNECTING" -> "ABORTING"
    [] rs = "OPEN" -> "CLOSING"
    [] OTHER -> rs

\* `this.wsClient && this.connected`
CanSend == wsClient # 0 /\ connected

Quiet ==
  /\ lastMsg' = NoMsg
  /\ invoked' = <<>>

\* ---------------------------------------------------------------- matching
matchesSecurity(security, subscriptionSecurities) ==
  \E k \in 1..Len(subscriptionSecurities) :
    /\ subscriptionSecurities[k].ticker = security.ticker
    /\ subscriptionSecurities[k].exchange = security.exchange

\* subscribe(...) that writes its message whatever `connected` says.
subscribeAlways(subs, out, canSend, entry) ==
  [subscriptions |-> MapSet(subs, entry),
   out |-> Append(out, <<"subscribe", entry.id>>)]

\* subscribe(...) as a function of the registry, of the messages written to
\* the socket and of `this.wsClient && this.connected`; entry is what it stores.
subscribe(subs, out, canSend, entry) ==
  [subscriptions |-> MapSet(subs, entry),
   out |-> IF canSend THEN Append(out, <<"subscribe", entry.id>>) ELSE out]

\* unsubscribe() without the has() test: the message is sent for any id.
unsubscribeNoHas(subs, out, canSend, subscriptionId) ==
  [subscriptions |-> MapDelete(subs, subscriptionId),
   out |-> IF canSend
           THEN Append(out, <<"unsubscribe", subscriptionId>>)
           ELSE out]

\* unsubscribe(subscriptionId) as a function of the registry, of the messages
\* written to the socket and of `this.wsClient && this.connected`.
unsubscribe(subs, out, canSend, subscriptionId) ==
  IF Has(subs, subscriptionId)
  THEN [subscriptions |-> MapDelete(subs, subscriptionId),
        out |-> IF canSend
                THEN Append(out, <<"unsubscribe", subscriptionId>>)
                ELSE out]
  ELSE [subscriptions |-> subs, out |-> out]

\* The identifier subscribe() draws when a callback calls it during a dispatch.
CallbackSubId == "sub_2_a"

\* The position of the entry stored under id.
IndexOf(subs, id) == CHOOSE k \in 1..Len(subs) : subs[k].id = id

\* subscription.callback(dataPoint) of the entry at i: what the callback does
\* to the registry and to the socket.  A callback either only returns (or
\* throws), or calls subscribe() for its own securities, or calls
\* unsubscribe() for its own entry, for the entry after it or for the first
\* entry; written is what the dispatch has written to the socket so far.
invokeCallback(subs, written, i) ==
  CASE subs[i].callback = "subscribes" ->
         subscribe(subs, written, CanSend,
                   [id |-> CallbackSubId, securities |-> subs[i].securities,
                    callback |-> "returns", inert |-> ~CanSend,
                    rangeId |-> <<>>, workbook |-> <<>>])
    [] subs[i].callback = "unsubscribesSelf" ->
         unsubscribe(subs, written, CanSend, subs[i].id)
    [] subs[i].callback = "unsubscribesNext" /\ i < Len(subs) ->
         unsubscribe(subs, written, CanSend, subs[i + 1].id)
    [] subs[i].callback = "unsubscribesFirst" ->
         unsubscribe(subs, written, CanSend, subs[1].id)
    [] OTHER -> [subscriptions |-> subs, out |-> written]

\* Map.prototype.forEach after the callback of the entry id, which was at i:
\* the entry visited next is the one that follows it in the registry as the
\* callback left it, or the one that took its place when it was deleted.
nextEntry(subs, id, i) ==
  IF Has(subs, id) THEN IndexOf(subs, id) + 1 ELSE i

\* this.subscriptions.forEach(...) of handleWebSocketMessage from entry i on:
\* the callbacks invoked, whether one threw (which ends the forEach), the
\* registry and the socket writes the callbacks leave, and the registry as it
\* was before each callback and at the end.
RECURSIVE forEachSubscription(_, _, _, _)
forEachSubscription(subs, written, i, security) ==
  IF i > Len(subs)
  THEN [invoked |-> <<>>, threw |-> FALSE,
        subscriptions |-> subs, written |-> written, registries |-> <<subs>>]
  ELSE IF matchesSecurity(security, subs[i].securities)
       THEN IF subs[i].callback = "throws"
            THEN [invoked |-> <<subs[i].id>>, threw |-> TRUE,
                  subscriptions |-> subs, written |-> written,
                  registries |-> <<subs>>]
            ELSE LET c == invokeCallback(subs, written, i)
                     rest == forEachSubscription(
                               c.subscriptions, c.out,
                               nextEntry(c.subscriptions, subs[i].id, i),
                               security)
                 IN  [invoked |-> <<subs[i].id>> \o rest.invoked,
                      threw |-> rest.threw,
                      subscriptions |-> rest.subscriptions,
                      written |-> rest.written,
                      registries |-> <<subs>> \o rest.registries]
       ELSE forEachSubscription(subs, written, i + 1, security)

\* handleWebSocketMessage with the emit inside the forEach's match branch: a
\* tick nobody subscribed to is not forwarded.
handleWebSocketMessageEmitOnMatch(subs, message) ==
  IF message.type = "marketData"
  THEN LET d == forEachSubscription(subs, <<>>, 1, message.security)
       IN  [invoked |-> d.invoked,
            signals |-> IF d.threw \/ d.invoked = <<>>
                        THEN <<>> ELSE <<"marketData">>,
            threw |-> d.threw,
            subscriptions |-> d.subscriptions, written |-> d.written]
  ELSE [invoked |-> <<>>, signals |-> <<>>, threw |-> FALSE,
        subscriptions |-> subs, written |-> <<>>]

\* handleWebSocketMessage(message): callbacks invoked, signals emitted,
\* whether an exception leaves it, and the registry and the socket writes the
\* callbacks leave.
handleWebSocketMessage(subs, message) ==
  IF message.type = "marketData"
  THEN LET d == forEachSubscription(subs, <<>>, 1, message.security)
       IN  [invoked |-> d.invoked,
            signals |-> IF d.threw THEN <<>> ELSE <<"marketData">>,
            threw |-> d.threw,
            subscriptions |-> d.subscriptions, written |-> d.written]
  ELSE [invoked |-> <<>>, signals |-> <<>>, threw |-> FALSE,
        subscriptions |-> subs, written |-> <<>>]

\* The 'message' listener without its try/catch: a payload JSON.parse rejects
\* raises out of the listener.
onMessageNoCatch(subs, message) ==
  IF message.type = "malformed"
  THEN [invoked |-> <<>>, signals |-> <<>>, escaped |-> TRUE,
        subscriptions |-> subs, written |-> <<>>]
  ELSE LET h == handleWebSocketMessage(subs, message)
       IN  [invoked |-> h.invoked, signals |-> h.signals, escaped |-> h.threw,
            subscriptions |-> h.subscriptions, written |-> h.written]

\* The 'message' listener: JSON.parse and handleWebSocketMessage inside one
\* try/catch that logs.  The result is what the handler did and whether an
\* exception leaves the listener.
onMessage(subs, message) ==
  IF message.type = "malformed"
  THEN [invoked |-> <<>>, signals |-> <<>>, escaped |-> FALSE,
        subscriptions |-> subs, written |-> <<>>]
  ELSE LET h == handleWebSocketMessage(subs, message)
       IN  [invoked |-> h.invoked, signals |-> h.signals, escaped |-> FALSE,
            subscriptions |-> h.subscriptions, written |-> h.written]

\* -------------------------------------------------------------------- Init
ClientInit ==
  /\ enableWebSocket \in EnableWebSocketValues
  /\ errorListener \in BOOLEAN
  /\ socks = IF enableWebSocket = "true" THEN <<"CONNECTING">> ELSE <<>>
  /\ sent = IF enableWebSocket = "true" THEN << <<>> >> ELSE <<>>
  /\ wsClient = IF enableWebSocket = "true" THEN 1 ELSE 0
  /\ connected = FALSE
  /\ timers = 0
  /\ subscriptions = <<>>
  /\ crashed = FALSE
  /\ disconnectCalled = FALSE
  /\ lastMsg = NoMsg
  /\ invoked = <<>>
  /\ signals = <<>>
  /\ lastResult = NoResult

LogInit ==
  /\ arrived = <<>>
  /\ delivered = [id \in SubIds |-> <<>>]

\* new ExcelConnector(config, bloombergClient)
ExcelConnectorInit ==
  /\ activeWorkbooks = <<>>
  /\ liveRanges = <<>>
  /\ updateIntervals = <<>>
  /\ intervals = {}
  /\ nextTimer = 1
  /\ nextSub = 1
  /\ writes = <<>>
  /\ received = <<>>
  /\ flushed = NoFlush
  /\ excelSignals = <<>>
  /\ excelCall = NoCall

\* A client of any configuration; its ExcelConnector, built with the default
\* configuration, is not used.
Init ==
  /\ ClientInit
  /\ LogInit
  /\ autoRefresh = FALSE
  /\ ExcelConnectorInit

\* ------------------------------------------------------ transport handlers
\* wsClient.on('open')
WsOpen(i) ==
  /\ ~crashed
  /\ socks[i] = "CONNECTING"
  /\ socks' = [socks EXCEPT ![i] = "OPEN"]
  /\ connected' = TRUE
  /\ signals' = <<"connected">>
  /\ Quiet
  /\ ClientOnly
  /\ UNCHANGED << enableWebSocket, errorListener, wsClient, timers,
                  subscriptions, sent, crashed, disconnectCalled >>

\* The registry entry stored under id.
Entry(subs, id) == subs[CHOOSE k \in 1..Len(subs) : subs[k].id = id]

\* Of the callbacks a dispatch invoked, those createLiveWorkbook registered:
\* (data) => this.updateLiveRange(rangeId, data).
liveRangeCalls(subs, ids) ==
  SelectSeq(ids, LAMBDA id : /\ Has(subs, id)
                             /\ Entry(subs, id).callback = "updateLiveRange")

\* updateLiveRange(rangeId, data) for each of them: one 'liveDataUpdate' signal.
updateLiveRange(subs, ids) ==
  LET calls == liveRangeCalls(subs, ids)
  IN  [k \in 1..Len(calls) |-> <<"liveDataUpdate", Entry(subs, calls[k]).rangeId>>]

\* The latest value of every field: a field the tick leaves out keeps the
\* value an earlier tick gave it.
Merge(old, new) ==
  [f \in DOMAIN new |-> IF new[f] # Undefined THEN new[f] ELSE old[f]]

\* `received` after the calls of updateLiveRange a dispatch made.
Received(rcv, subs, ids, message) ==
  LET calls == liveRangeCalls(subs, ids)
      called == { Entry(subs, calls[k]).rangeId : k \in 1..Len(calls) }
      owner(rid) == Entry(subs, CHOOSE id \in Range(calls) :
                                  Entry(subs, id).rangeId = rid).workbook
  IN  [rid \in DOMAIN rcv \cup called |->
         IF rid \in called
         THEN [workbook |-> owner(rid),
               values |-> IF rid \in DOMAIN rcv
                          THEN Merge(rcv[rid].values, message.values)
                          ELSE message.values]
         ELSE rcv[rid]]

\* wsClient.on('message'), but for the delivery log.
WsMessageHandled(i, message) ==
  /\ ~crashed
  /\ socks[i] = "OPEN"
  /\ LET r == onMessage(subscriptions, message)
     IN  /\ invoked' = r.invoked
         /\ signals' = r.signals
         /\ crashed' = r.escaped
         /\ excelSignals' = updateLiveRange(subscriptions, r.invoked)
         /\ received' = Received(received, subscriptions, r.invoked, message)
         /\ subscriptions' = r.subscriptions
         /\ sent' = IF r.written = <<>>
                    THEN sent
                    ELSE [sent EXCEPT ![wsClient] = @ \o r.written]
  /\ lastMsg' = message
  /\ lastResult' = NoResult
  /\ excelCall' = NoCall
  /\ flushed' = NoFlush
  /\ UNCHANGED << enableWebSocket, errorListener, socks, wsClient, connected,
                  timers, disconnectCalled >>
  /\ UNCHANGED << autoRefresh, activeWorkbooks, liveRanges, updateIntervals,
                  intervals, nextTimer, nextSub, writes >>

\* wsClient.on('message')
WsMessage(i, message) ==
  /\ WsMessageHandled(i, message)
  /\ UNCHANGED << arrived, delivered >>

\* wsClient.on('message'), a marketData message and its deliveries logged.
WsMessageLogged(i, message) ==
  /\ message.type = "marketData"
  /\ Len(arrived) < MaxLog
  /\ WsMessageHandled(i, message)
  /\ arrived' = Append(arrived, message)
  /\ delivered' =
       [id \in SubIds |->
          delivered[id] \o [k \in 1..Count(id, invoked') |-> message]]

\* An 'error' listener that also does the close handler's work.
WsErrorDisconnects(i) ==
  /\ ~crashed
  /\ socks[i] \in {"CONNECTING", "OPEN", "ABORTING"}
  /\ socks' = [socks EXCEPT ![i] = "CLOSING"]
  /\ signals' = <<"error", "disconnected">>
  /\ crashed' = ~errorListener
  /\ connected' = FALSE
  /\ timers' = timers + 1
  /\ Quiet
  /\ ClientOnly
  /\ UNCHANGED << enableWebSocket, errorListener, wsClient, subscriptions,
                  sent, disconnectCalled >>

\* An 'error' listener that arms the reconnect timer as well.
WsErrorReconnects(i) ==
  /\ ~crashed
  /\ socks[i] \in {"CONNECTING", "OPEN", "ABORTING"}
  /\ socks' = [socks EXCEPT ![i] = "CLOSING"]
  /\ signals' = <<"error">>
  /\ crashed' = ~errorListener
  /\ timers' = timers + 1
  /\ Quiet
  /\ ClientOnly
  /\ UNCHANGED << enableWebSocket, errorListener, wsClient, connected,
                  subscriptions, sent, disconnectCalled >>

\* wsClient.on('error'): logs and re-emits; the emit throws when nobody listens.
WsError(i) ==
  /\ ~crashed
  /\ socks[i] \in {"CONNECTING", "OPEN", "ABORTING"}
  /\ socks' = [socks EXCEPT ![i] = "CLOSING"]
  /\ signals' = <<"error">>
  /\ crashed' = ~errorListener
  /\ Quiet
  /\ ClientOnly
  /\ UNCHANGED << enableWebSocket, errorListener, wsClient, connected, timers,
                  subscriptions, sent, disconnectCalled >>

\* A 'close' listener that arms no reconnect timer.
WsCloseNoReconnect(i) ==
  /\ ~crashed
  /\ socks[i] \in {"OPEN", "CLOSING"}
  /\ socks' = [socks EXCEPT ![i] = "CLOSED"]
  /\ sent' = [sent EXCEPT ![i] = <<>>]
  /\ connected' = FALSE
  /\ signals' = <<"disconnected">>
  /\ Quiet
  /\ ClientOnly
  /\ UNCHANGED << enableWebSocket, errorListener, wsClient, timers,
                  subscriptions, crashed, disconnectCalled >>

\* wsClient.on('close')
WsClose(i) ==
  /\ ~crashed
  /\ socks[i] \in {"OPEN", "CLOSING"}
  /\ socks' = [socks EXCEPT ![i] = "CLOSED"]
  /\ sent' = [sent EXCEPT ![i] = <<>>]
  /\ connected' = FALSE
  /\ signals' = <<"disconnected">>
  /\ timers' = timers + 1
  /\ Quiet
  /\ ClientOnly
  /\ UNCHANGED << enableWebSocket, errorListener, wsClient, subscriptions,
                  crashed, disconnectCalled >>

\* The reconnect timer fires: initializeWebSocket()
ReconnectTimer ==
  /\ ~crashed
  /\ timers > 0
  /\ Len(socks) < MaxSessions
  /\ timers' = timers - 1
  /\ socks' = Append(socks, "CONNECTING")
  /\ sent' = Append(sent, <<>>)
  /\ wsClient' = Len(socks) + 1
  /\ signals' = <<>>
  /\ Quiet
  /\ ClientOnly
  /\ UNCHANGED << enableWebSocket, errorListener, connected, subscriptions,
                  crashed, disconnectCalled >>

\* --------------------------------------------------------------- public API
\* The messages written so far to the socket this.wsClient names.
Out == IF wsClient # 0 THEN sent[wsClient] ELSE <<>>

\* subscribe(securities, fields, callback).  `fields` is only passed on in the
\* message.  wsClient.send() throws on a CONNECTING socket; CanSend never holds
\* for one (connected is set by 'open' and cleared before the next socket is
\* created), so the send below always returns.
Subscribe(id, securities, callback) ==
  /\ ~crashed
  /\ CanSend => Len(sent[wsClient]) < MaxSent
  /\ LET r == subscribe(subscriptions, Out, CanSend,
                        [id |-> id, securities |-> securities,
                         callback |-> callback, inert |-> ~CanSend,
                         rangeId |-> <<>>, workbook |-> <<>>])
     IN  /\ subscriptions' = r.subscriptions
         /\ sent' = IF wsClient # 0
                    THEN [sent EXCEPT ![wsClient] = r.out]
                    ELSE sent
  /\ signals' = <<>>
  /\ Quiet
  /\ ClientOnly
  /\ UNCHANGED << enableWebSocket, errorListener, socks, wsClient, connected,
                  timers, crashed, disconnectCalled >>

\* unsubscribe(subscriptionId)
Unsubscribe(id) ==
  /\ ~crashed
  /\ (Has(subscriptions, id) /\ CanSend) => Len(sent[wsClient]) < MaxSent
  /\ LET r == unsubscribe(subscriptions, Out, CanSend, id)
     IN  /\ subscriptions' = r.subscriptions
         /\ sent' = IF wsClient # 0
                    THEN [sent EXCEPT ![wsClient] = r.out]
                    ELSE sent
  /\ signals' = <<>>
  /\ Quiet
  /\ ClientOnly
  /\ UNCHANGED << enableWebSocket, errorListener, socks, wsClient, connected,
                  timers, crashed, disconnectCalled >>

\* The forEach of disconnect() with a cursor that moves on after every visit,
\* as an index into an array would: the entry that takes the place of a deleted
\* one is skipped.
RECURSIVE forEachUnsubscribeByIndex(_, _, _, _)
forEachUnsubscribeByIndex(subs, out, canSend, i) ==
  IF i > Len(subs) THEN [subscriptions |-> subs, out |-> out]
  ELSE LET r == unsubscribe(subs, out, canSend, subs[i].id)
       IN  forEachUnsubscribeByIndex(r.subscriptions, r.out, canSend, i + 1)

\* this.subscriptions.forEach((_, id) => this.unsubscribe(id)) of disconnect(),
\* from the i-th entry on.  Map.forEach goes on with the entry that followed
\* the one just visited: when the visit deleted its entry, that is the one now
\* in its place.
RECURSIVE forEachUnsubscribe(_, _, _, _)
forEachUnsubscribe(subs, out, canSend, i) ==
  IF i > Len(subs) THEN [subscriptions |-> subs, out |-> out]
  ELSE LET r == unsubscribe(subs, out, canSend, subs[i].id)
       IN  forEachUnsubscribe(r.subscriptions, r.out, canSend,
                              IF Has(r.subscriptions, subs[i].id) THEN i + 1 ELSE i)

\* disconnect()
Disconnect ==
  /\ ~crashed
  /\ IF wsClient # 0
     THEN /\ LET r == forEachUnsubscribe(subscriptions, Out, CanSend, 1)
             IN  /\ sent' = [sent EXCEPT ![wsClient] = r.out]
                 /\ subscriptions' = r.subscriptions
          /\ socks' = [socks EXCEPT ![wsClient] = CloseCall(@)]
          /\ wsClient' = 0
     ELSE UNCHANGED << sent, subscriptions, socks, wsClient >>
  /\ connected' = FALSE
  /\ disconnectCalled' = TRUE
  /\ signals' = <<>>
  /\ Quiet
  /\ ClientOnly
  /\ UNCHANGED << enableWebSocket, errorListener, timers, crashed >>

\* ------------------------------------------------------- request/response
\* What the try block of an operation throws: the error axios rejects with, or
\* the TypeError of reading a property of null or undefined.  code and
\* responseMessage are error.response?.data?.code and ...?.message.
Thrown(outcome) ==
  CASE outcome = "networkError" ->
         [code |-> Undefined, responseMessage |-> Undefined,
          message |-> "Network Error"]
    [] outcome = "errorWithBody" ->
         [code |-> "RATE_LIMIT", responseMessage |-> "Too many requests",
          message |-> "Request failed with status code 429"]
    [] outcome = "errorNoBody" ->
         [code |-> Undefined, responseMessage |-> Undefined,
          message |-> "Request failed with status code 500"]
    [] OTHER ->
         [code |-> Undefined, responseMessage |-> Undefined,
          message |-> "Cannot read properties"]

\* handleError(error)
handleError(error) ==
  [rejected |-> FALSE, success |-> FALSE, data |-> Undefined,
   code |-> IF error.code # Undefined THEN error.code ELSE "UNKNOWN_ERROR",
   message |-> IF error.responseMessage # Undefined
               THEN error.responseMessage ELSE error.message]

\* getRealTimeData and getHistoricalData: data is response.data.data.map(...),
\* which throws when the body has no data array.
getRealTimeData(outcome) ==
  IF outcome = "okArray"
  THEN [rejected |-> FALSE, success |-> TRUE, data |-> "array",
        code |-> Undefined, message |-> Undefined]
  ELSE handleError(Thrown(outcome))

getHistoricalData(outcome) ==
  IF outcome = "okArray"
  THEN [rejected |-> FALSE, success |-> TRUE, data |-> "array",
        code |-> Undefined, message |-> Undefined]
  ELSE handleError(Thrown(outcome))

\* getReferenceData and searchSecurities: data is response.data.data as it is.
getReferenceData(outcome) ==
  IF outcome \in {"okArray", "okNoData"}
  THEN [rejected |-> FALSE, success |-> TRUE,
        data |-> IF outcome = "okArray" THEN "array" ELSE Undefined,
        code |-> Undefined, message |-> Undefined]
  ELSE handleError(Thrown(outcome))

searchSecurities(outcome) ==
  IF outcome \in {"okArray", "okNoData"}
  THEN [rejected |-> FALSE, success |-> TRUE,
        data |-> IF outcome = "okArray" THEN "array" ELSE Undefined,
        code |-> Undefined, message |-> Undefined]
  ELSE handleError(Thrown(outcome))

\* One of the four operations, from its call to the settling of its promise.
Request(op, outcome) ==
  /\ ~crashed
  /\ LET r == CASE op = "getRealTimeData" -> getRealTimeData(outcome)
                [] op = "getHistoricalData" -> getHistoricalData(outcome)
                [] op = "getReferenceData" -> getReferenceData(outcome)
                [] op = "searchSecurities" -> searchSecurities(outcome)
     IN  /\ lastResult' = [op |-> op, outcome |-> outcome,
                           rejected |-> r.rejected, success |-> r.success,
                           data |-> r.data, code |-> r.code,
                           message |-> r.message]
         /\ crashed' = r.rejected
  /\ signals' = <<>>
  /\ Quiet
  /\ excelSignals' = <<>>
  /\ excelCall' = NoCall
  /\ flushed' = NoFlush
  /\ UNCHANGED << enableWebSocket, errorListener, socks, wsClient, connected,
                  timers, subscriptions, sent, disconnectCalled >>
  /\ UNCHANGED << arrived, delivered, autoRefresh, activeWorkbooks, liveRanges,
                  updateIntervals, intervals, nextTimer, nextSub, writes,
                  received >>

\* -------------------------------------------------------------------- Next
Next ==
  \/ \E i \in 1..Len(socks) : WsOpen(i)
  \/ \E i \in 1..Len(socks), message \in Messages : WsMessage(i, message)
  \/ \E i \in 1..Len(socks) : WsError(i)
  \/ \E i \in 1..Len(socks) : WsClose(i)
  \/ ReconnectTimer
  \/ \E id \in SubIds, securities \in SecurityLists, callback \in Callbacks :
       Subscribe(id, securities, callback)
  \/ \E id \in SubIds : Unsubscribe(id)
  \/ Disconnect

Spec == Init /\ [][Next]_vars

\* The timer the close handler sets is run by the event loop.
FairSpec == Spec /\ WF_vars(ReconnectTimer)

\* ------------------------------------------------- requests on a client
RequestNext ==
  \/ \E i \in 1..Len(socks) : WsOpen(i)
  \/ \E id \in SubIds, securities \in SecurityLists, callback \in Callbacks :
       Subscribe(id, securities, callback)
  \/ \E op \in Operations, outcome \in HttpOutcomes : Request(op, outcome)

\* A client, with or without subscriptions and session, that makes requests.
RequestSpec == Init /\ [][RequestNext]_vars

\* ------------------------------------------------------- the delivery log
\* subscribe() before the first logged message, so that every subscription
\* of the registry has been there for the whole log.
SubscribeBeforeLog(id, securities, callback) ==
  /\ arrived = <<>>
  /\ Subscribe(id, securities, callback)

OrderNext ==
  \/ \E i \in 1..Len(socks) : WsOpen(i)
  \/ \E id \in SubIds, securities \in SecurityLists, callback \in Callbacks :
       SubscribeBeforeLog(id, securities, callback)
  \/ \E i \in 1..Len(socks), message \in Messages : WsMessageLogged(i, message)

\* One session of the client: subscriptions, then a stream of messages.
OrderSpec == Init /\ [][OrderNext]_vars

\* ------------------------------------------- callbacks that call the client
\* What a callback may do when it is allowed to call back into the client.
ReentrantCallbacks ==
  {"returns", "subscribes", "unsubscribesSelf", "unsubscribesNext",
   "unsubscribesFirst"}

\* Identifiers of the subscriptions made before the stream starts.
ReentrantSubIds == SubIds \cup {"sub_1_c"}

\* `securities` arguments: one the tick below matches and one it does not.
ReentrantSecurityLists == { <<Sec("AAPL", "NASDAQ")>>, <<Sec("AAPL", Undefined)>> }

\* The tick of the stream.
ReentrantMessages == { [type |-> "marketData", security |-> Sec("AAPL", "NASDAQ")] }

\* A client with a WebSocket session and an 'error' listener.
ReentrantInit ==
  /\ ClientInit
  /\ enableWebSocket = "true"
  /\ errorListener
  /\ LogInit
  /\ autoRefresh = FALSE
  /\ ExcelConnectorInit

ReentrantNext ==
  \/ \E i \in 1..Len(socks) : WsOpen(i)
  \/ \E id \in ReentrantSubIds, securities \in ReentrantSecurityLists,
        callback \in ReentrantCallbacks :
       SubscribeBeforeLog(id, securities, callback)
  \/ \E i \in 1..Len(socks), message \in ReentrantMessages :
       WsMessageLogged(i, message)

\* Subscriptions whose callbacks subscribe and unsubscribe, then a stream of
\* ticks.
ReentrantSpec == ReentrantInit /\ [][ReentrantNext]_vars

\* ---------------------------------------------------------- ExcelConnector
\* `${workbookId}_${range.worksheet}`
RangeId(workbookId, worksheet) == workbookId \o <<"_">> \o worksheet

\* String.prototype.startsWith
startsWith(str, prefix) ==
  /\ Len(prefix) <= Len(str)
  /\ SubSeq(str, 1, Len(prefix)) = prefix

\* Map.set(key, value) on a Map kept as a function.
Put(map, key, value) ==
  [x \in DOMAIN map \cup {key} |-> IF x = key THEN value ELSE map[x]]

\* The Map without the keys of gone.
Without(map, gone) == [x \in DOMAIN map \ gone |-> map[x]]

\* The identifiers the client draws for the ExcelConnector's subscriptions:
\* one per call, the wall clock and the random source giving each call its own.
SubId(n) == <<"sub", n>>

\* "Set up periodic updates" without the test of config.autoRefresh.
startIntervalAlways(st, enabled, rangeId, interval) ==
  [intervals |-> st.intervals \cup {interval},
   updateIntervals |-> Put(st.updateIntervals, rangeId, interval.id),
   nextTimer |-> st.nextTimer + 1]

\* "Set up periodic updates": if (this.config.autoRefresh) { setInterval(...);
\* this.updateIntervals.set(rangeId, interval) }
startInterval(st, enabled, rangeId, interval) ==
  IF enabled
  THEN [intervals |-> st.intervals \cup {interval},
        updateIntervals |-> Put(st.updateIntervals, rangeId, interval.id),
        nextTimer |-> st.nextTimer + 1]
  ELSE [intervals |-> st.intervals,
        updateIntervals |-> st.updateIntervals,
        nextTimer |-> st.nextTimer]

\* ranges.forEach((range) => ...) of createLiveWorkbook from range k on.  st
\* holds the two Maps, the client's registry and socket output, and the
\* timers; ids[k] is the identifier the client draws for range k.
RECURSIVE forEachRange(_, _, _, _, _, _)
forEachRange(st, workbookId, ranges, filePath, ids, k) ==
  IF k > Len(ranges) THEN st
  ELSE
    LET range == ranges[k]
        rangeId == RangeId(workbookId, range.worksheet)
        sub == subscribe(st.subscriptions, st.out, CanSend,
                 [id |-> ids[k],
                  securities |-> [j \in 1..Len(range.securities) |->
                                    Sec(range.securities[j], Undefined)],
                  callback |-> "updateLiveRange",
                  inert |-> ~CanSend,
                  rangeId |-> rangeId,
                  workbook |-> workbookId])
        timed == startInterval(st, autoRefresh, rangeId,
                   [id |-> st.nextTimer, workbook |-> workbookId,
                    filePath |-> filePath, stale |-> FALSE])
    IN  forEachRange(
          [liveRanges |-> Put(st.liveRanges, rangeId,
                              [worksheet |-> range.worksheet,
                               securities |-> range.securities,
                               workbook |-> workbookId]),
           subscriptions |-> sub.subscriptions,
           out |-> sub.out,
           intervals |-> timed.intervals,
           updateIntervals |-> timed.updateIntervals,
           nextTimer |-> timed.nextTimer],
          workbookId, ranges, filePath, ids, k + 1)

\* A step of the ExcelConnector in which the client handles no message and
\* emits nothing.
ClientIdle ==
  /\ signals' = <<>>
  /\ lastResult' = NoResult
  /\ Quiet
  /\ UNCHANGED << enableWebSocket, errorListener, socks, wsClient, connected,
                  timers, disconnectCalled, arrived, delivered >>

\* createLiveWorkbook(workbookId, ranges, filePath)
CreateLiveWorkbook(workbookId, ranges, filePath) ==
  /\ ~crashed
  /\ nextSub + Len(ranges) - 1 <= MaxRanges
  /\ nextSub' = nextSub + Len(ranges)
  /\ activeWorkbooks' = Put(activeWorkbooks, workbookId, <<>>)
  /\ LET ids == [k \in 1..Len(ranges) |-> SubId(nextSub + k - 1)]
         st == forEachRange(
                 [liveRanges |-> liveRanges, subscriptions |-> subscriptions,
                  out |-> Out, intervals |-> intervals,
                  updateIntervals |-> updateIntervals, nextTimer |-> nextTimer],
                 workbookId, ranges, filePath, ids, 1)
     IN  /\ liveRanges' = st.liveRanges
         /\ subscriptions' = st.subscriptions
         /\ sent' = IF wsClient # 0
                    THEN [sent EXCEPT ![wsClient] = st.out]
                    ELSE sent
         /\ intervals' = st.intervals
         /\ updateIntervals' = st.updateIntervals
         /\ nextTimer' = st.nextTimer
  /\ excelCall' = [op |-> "createLiveWorkbook", workbook |-> workbookId,
                   ranges |-> Len(ranges)]
  /\ excelSignals' = <<>>
  /\ flushed' = NoFlush
  /\ ClientIdle
  /\ UNCHANGED << crashed, autoRefresh, writes, received >>

\* closeLiveWorkbook(workbookId).  A timer of the workbook that the call
\* leaves running is marked stale.
CloseLiveWorkbook(workbookId) ==
  /\ ~crashed
  /\ LET gone == { rangeId \in DOMAIN updateIntervals :
                     startsWith(rangeId, workbookId) }
         cleared == { updateIntervals[rangeId] : rangeId \in gone }
     IN  /\ updateIntervals' = Without(updateIntervals, gone)
         /\ intervals' =
              { IF t.workbook = workbookId THEN [t EXCEPT !.stale = TRUE] ELSE t :
                  t \in { u \in intervals : u.id \notin cleared } }
  /\ activeWorkbooks' = Without(activeWorkbooks, {workbookId})
  /\ excelCall' = [op |-> "closeLiveWorkbook", workbook |-> workbookId,
                   ranges |-> 0]
  /\ excelSignals' = <<>>
  /\ flushed' = NoFlush
  /\ ClientIdle
  /\ UNCHANGED << crashed, subscriptions, sent, autoRefresh, liveRanges,
                  nextTimer, writes, received,
                  nextSub >>

\* How a run of refreshLiveWorkbook ends: the signals it emits and whether its
\* promise rejects.  outcome is "written" (writeFile resolved), "writeFailed"
\* (writeFile rejected) or "notFound" (the workbook is not in activeWorkbooks).
refreshLiveWorkbookNoCatch(workbookId, filePath, outcome) ==
  [signals |-> IF outcome = "written"
               THEN << <<"workbookRefreshed", workbookId, filePath>> >>
               ELSE <<>>,
   rejected |-> outcome # "written"]

refreshLiveWorkbook(workbookId, filePath, outcome) ==
  [signals |-> IF outcome = "written"
               THEN << <<"workbookRefreshed", workbookId, filePath>> >>
               ELSE <<>>,
   rejected |-> FALSE]

\* A setInterval timer fires: refreshLiveWorkbook(workbookId, filePath) up to
\* its await.  A rejection of its promise is an unhandled rejection.
IntervalFires(t) ==
  /\ ~crashed
  /\ t \in intervals
  /\ IF t.workbook \in DOMAIN activeWorkbooks
     THEN /\ Len(writes) < MaxWrites
          /\ writes' = Append(writes,
                              [workbook |-> t.workbook, filePath |-> t.filePath,
                               content |-> activeWorkbooks[t.workbook],
                               stale |-> t.stale])
          /\ flushed' = NoFlush
          /\ excelSignals' = <<>>
          /\ crashed' = crashed
     ELSE LET r == refreshLiveWorkbook(t.workbook, t.filePath, "notFound")
          IN  /\ writes' = writes
              /\ flushed' = [workbook |-> t.workbook, outcome |-> "notFound",
                             stale |-> t.stale]
              /\ excelSignals' = r.signals
              /\ crashed' = r.rejected
  /\ excelCall' = NoCall
  /\ ClientIdle
  /\ UNCHANGED << subscriptions, sent, autoRefresh, activeWorkbooks, liveRanges,
                  updateIntervals, intervals, nextTimer, received,
                  nextSub >>

\* The writeFile() promise of the k-th write in flight settles, and
\* refreshLiveWorkbook runs from its await to its end.
WriteSettles(k, outcome) ==
  /\ ~crashed
  /\ k \in 1..Len(writes)
  /\ LET w == writes[k]
         r == refreshLiveWorkbook(w.workbook, w.filePath, outcome)
     IN  /\ flushed' = [workbook |-> w.workbook, outcome |-> outcome,
                        stale |-> w.stale]
         /\ excelSignals' = r.signals
         /\ crashed' = r.rejected
  /\ writes' = SubSeq(writes, 1, k - 1) \o SubSeq(writes, k + 1, Len(writes))
  /\ excelCall' = NoCall
  /\ ClientIdle
  /\ UNCHANGED << subscriptions, sent, autoRefresh, activeWorkbooks, liveRanges,
                  updateIntervals, intervals, nextTimer, received,
                  nextSub >>

\* ExcelConnector.disconnect()
ExcelDisconnect ==
  /\ ~crashed
  /\ LET cleared == { updateIntervals[rangeId] : rangeId \in DOMAIN updateIntervals }
     IN  intervals' = { t \in intervals : t.id \notin cleared }
  /\ updateIntervals' = <<>>
  /\ activeWorkbooks' = <<>>
  /\ liveRanges' = <<>>
  /\ excelCall' = [op |-> "disconnect", workbook |-> <<>>, ranges |-> 0]
  /\ excelSignals' = <<>>
  /\ flushed' = NoFlush
  /\ ClientIdle
  /\ UNCHANGED << crashed, subscriptions, sent, autoRefresh, nextTimer, writes,
                  received,
                  nextSub >>

\* A client that streams, with an observer of its 'error' signal, and an
\* ExcelConnector of either configuration on top of it.
ExcelInit ==
  /\ ClientInit
  /\ enableWebSocket = "true"
  /\ errorListener
  /\ LogInit
  /\ autoRefresh \in BOOLEAN
  /\ ExcelConnectorInit

ExcelNext ==
  \/ \E target \in Targets, ranges \in RangeLists :
       CreateLiveWorkbook(target.workbookId, ranges, target.filePath)
  \/ \E workbookId \in WorkbookIds : CloseLiveWorkbook(workbookId)
  \/ \E t \in intervals : IntervalFires(t)
  \/ \E k \in 1..Len(writes), outcome \in {"written", "writeFailed"} :
       WriteSettles(k, outcome)
  \/ ExcelDisconnect

\* The ExcelConnector by itself: workbooks, timers and flushes.
ExcelSpec == ExcelInit /\ [][ExcelNext]_vars

LiveNext ==
  \/ \E i \in 1..Len(socks) : WsOpen(i)
  \/ \E i \in 1..Len(socks), message \in ExcelMessages : WsMessage(i, message)
  \/ ExcelNext

\* The ExcelConnector on a client whose session opens and delivers ticks.
LiveSpec == ExcelInit /\ [][LiveNext]_vars

\* ------------------------------------------------------------------ claims
\* Entries of the registry, by position.
Entries == 1..Len(subscriptions)

\* The session the step just taken closed, or reported an error on.
ClosedNow(i) == socks[i] \in {"OPEN", "CLOSING"} /\ socks'[i] = "CLOSED"
ErroredNow(i) ==
  /\ socks[i] \in {"CONNECTING", "OPEN", "ABORTING"}
  /\ socks'[i] = "CLOSING"
  /\ signals' # <<>>
  /\ Head(signals') = "error"

\* The elements of a sequence.

\* SecurityKey equality of the specification: ticker, and exchange only when
\* both sides give one.
SecurityKeyEq(a, b) ==
  /\ a.ticker = b.ticker
  /\ (a.exchange = Undefined \/ b.exchange = Undefined \/ a.exchange = b.exchange)

\* C1: for every subscription in the registry and every marketData message
\* handled, the callback is invoked exactly once when the message's security
\* matches an entry of the subscription's list (also a repeated entry), and
\* not at all when it matches none.
C1_ExactlyOncePerMatch ==
  lastMsg.type = "marketData" =>
    \A k \in Entries :
      Count(subscriptions[k].id, invoked) =
        IF matchesSecurity(lastMsg.security, subscriptions[k].securities)
        THEN 1 ELSE 0

\* C2: when 'connected' fires on a session opened after an unexpected close,
\* a 'subscribe' message has been written to the new session for every
\* subscription that was registered on an earlier session and is still in the
\* registry.
C2_ResubscribedOnReconnect ==
  (signals = <<"connected">> /\ wsClient > 1 /\ ~disconnectCalled) =>
    \A k \in Entries :
      ~subscriptions[k].inert =>
        <<"subscribe", subscriptions[k].id>> \in Range(sent[wsClient])

\* C3: a subscription created while the client was not connected is in the
\* registry and, when 'connected' next fires, its 'subscribe' message has been
\* written to the session that opened.
C3_InertSentOnConnected ==
  (signals = <<"connected">> /\ wsClient # 0) =>
    \A k \in Entries :
      subscriptions[k].inert =>
        <<"subscribe", subscriptions[k].id>> \in Range(sent[wsClient])

\* C4: once disconnect() has been called the client is never connected again
\* and no session is being opened or open, also after the close event of the
\* session disconnect() closed has been handled.
C4_NoReconnectAfterDisconnect ==
  disconnectCalled =>
    /\ ~connected
    /\ \A i \in 1..Len(socks) : socks[i] \notin {"CONNECTING", "OPEN"}

\* C5: when a matching subscription's callback throws, every other matching
\* subscription's callback is still invoked exactly once for that message and
\* the 'marketData' signal is still emitted.
C5_ThrowingCallbackIsolated ==
  ( /\ lastMsg.type = "marketData"
    /\ \E k \in Entries :
         /\ subscriptions[k].callback = "throws"
         /\ matchesSecurity(lastMsg.security, subscriptions[k].securities) )
  => /\ \A j \in Entries :
          matchesSecurity(lastMsg.security, subscriptions[j].securities)
            => Count(subscriptions[j].id, invoked) = 1
     /\ signals = <<"marketData">>

\* C6: a payload that cannot be parsed is dropped: handling it changes neither
\* the connection state nor the registry, invokes no callback, emits nothing
\* and lets no exception out of the handler; a marketData message handled
\* right after it is dispatched from the unchanged registry like any other.
C6_MalformedDropped ==
  [][ /\ lastMsg'.type = "malformed" =>
           /\ UNCHANGED << socks, wsClient, connected, timers, subscriptions,
                           sent, crashed, disconnectCalled >>
           /\ invoked' = <<>>
           /\ signals' = <<>>
      /\ (lastMsg.type = "malformed" /\ lastMsg'.type = "marketData") =>
           /\ ~crashed'
           /\ subscriptions' = subscriptions
           /\ invoked' =
                handleWebSocketMessage(subscriptions, lastMsg').invoked
           /\ signals' =
                handleWebSocketMessage(subscriptions, lastMsg').signals
    ]_vars

\* A malformed payload has just been handled on the connected session while
\* the registry holds a subscription.
C6_Witness ==
  /\ lastMsg.type = "malformed"
  /\ connected
  /\ wsClient # 0
  /\ socks[wsClient] = "OPEN"
  /\ subscriptions # <<>>

\* C7: every close of a session before disconnect() was called leaves the
\* client not connected, emits 'disconnected' once and arms exactly one
\* reconnect timer; with the timer run fairly, a new session is created after
\* every such close, however many sessions in a row failed.
C7_CloseReconnects ==
  /\ [][ \A i \in 1..Len(socks) :
           (ClosedNow(i) /\ ~disconnectCalled) =>
             /\ ~connected'
             /\ signals' = <<"disconnected">>
             /\ timers' = timers + 1
       ]_vars
  /\ \A n \in 1..(MaxSessions - 1) :
       (Len(socks) >= n /\ socks[n] = "CLOSED" /\ ~disconnectCalled)
         ~> (Len(socks) > n)

\* Two sessions in a row failed before opening, and the third is connected.
C7_Witness ==
  /\ Len(socks) >= 3
  /\ socks[1] = "CLOSED"
  /\ socks[2] = "CLOSED"
  /\ socks[3] = "OPEN"
  /\ connected
  /\ ~disconnectCalled

\* C8, as claimed: handling an 'error' event while connected makes the client
\* not connected, emits 'disconnected' and arms a reconnect timer.
C8_ErrorDisconnects ==
  [][ \A i \in 1..Len(socks) :
        (ErroredNow(i) /\ connected) =>
          /\ ~connected'
          /\ "disconnected" \in Range(signals')
          /\ timers' = timers + 1
    ]_vars

\* C8, amended: handling an 'error' event while connected only emits 'error':
\* isConnected() stays true, 'disconnected' is not emitted and no reconnect
\* timer is armed; the client becomes not connected, emits 'disconnected' and
\* arms one reconnect timer when the close event that follows the error is
\* handled.
C8_ErrorOnlyReported ==
  [][ \A i \in 1..Len(socks) :
        /\ (ErroredNow(i) /\ connected) =>
             /\ connected'
             /\ signals' = <<"error">>
             /\ timers' = timers
        /\ (socks[i] = "CLOSING" /\ socks'[i] = "CLOSED") =>
             /\ ~connected'
             /\ signals' = <<"disconnected">>
             /\ timers' = timers + 1
    ]_vars

\* An 'error' event has just been handled on the open session of a connected
\* client: the close event is still to come.
C8_Witness ==
  /\ signals = <<"error">>
  /\ connected
  /\ wsClient # 0
  /\ socks[wsClient] = "CLOSING"
  /\ ~disconnectCalled

\* C9: handling a transport 'error' event never lets an exception out of the
\* client, whether or not an observer is registered for 'error'.
C9_ErrorNeverEscapes == ~crashed

\* C10: matching is by ticker alone when the exchange is absent on either
\* side, and compares the exchange only when both sides give one: with no
\* throwing callback in the registry, a callback is invoked once exactly when
\* an entry of its list equals the message's security in that sense.
C10_TickerOnlyWhenExchangeAbsent ==
  ( /\ lastMsg.type = "marketData"
    /\ \A k \in Entries : subscriptions[k].callback = "returns" )
  => \A k \in Entries :
       Count(subscriptions[k].id, invoked) =
         IF \E e \in Range(subscriptions[k].securities) :
              SecurityKeyEq(e, lastMsg.security)
         THEN 1 ELSE 0

\* C11: unsubscribe(id) is idempotent.  For an id in the registry it writes one
\* 'unsubscribe' message (only when connected) and deletes exactly that entry;
\* for an id not in the registry it writes nothing and changes nothing; a
\* second unsubscribe(id) changes nothing more and writes nothing more.
C11_UnsubscribeIdempotent ==
  \A id \in SubIds :
    LET once == unsubscribe(subscriptions, Out, CanSend, id)
        twice == unsubscribe(once.subscriptions, once.out, CanSend, id)
    IN  /\ twice = once
        /\ ~Has(once.subscriptions, id)
        /\ once.subscriptions = SelectSeq(subscriptions, LAMBDA e : e.id # id)
        /\ Has(subscriptions, id) =>
             /\ Len(once.subscriptions) = Len(subscriptions) - 1
             /\ once.out = IF CanSend
                           THEN Append(Out, <<"unsubscribe", id>>)
                           ELSE Out
        /\ ~Has(subscriptions, id) =>
             /\ once.subscriptions = subscriptions
             /\ once.out = Out

\* unsubscribe(id) has removed an entry of a connected client and written its
\* message, and another entry is still registered.
C11_Witness ==
  /\ CanSend
  /\ subscriptions # <<>>
  /\ \E id \in SubIds :
       /\ ~Has(subscriptions, id)
       /\ <<"unsubscribe", id>> \in Range(sent[wsClient])

\* C12: the first disconnect(), called in any state, leaves the registry empty
\* and isConnected() false.
C12_DisconnectClearsRegistry ==
  [][ (~disconnectCalled /\ disconnectCalled') =>
        (subscriptions' = <<>> /\ ~connected') ]_vars

\* C19: a marketData message whose security matches no subscription invokes
\* no callback and is still forwarded by exactly one 'marketData' emission; a
\* message of another type invokes no callback and emits nothing.
C19_FanOutUnconditional ==
  /\ ( /\ lastMsg.type = "marketData"
       /\ \A k \in Entries :
            ~matchesSecurity(lastMsg.security, subscriptions[k].securities) )
     => (invoked = <<>> /\ signals = <<"marketData">>)
  /\ lastMsg.type = "heartbeat" => (invoked = <<>> /\ signals = <<>>)

\* A marketData message was handled while the registry held subscriptions,
\* none of which matches it.
C19_Witness ==
  /\ lastMsg.type = "marketData"
  /\ Len(subscriptions) = 2
  /\ \A k \in Entries :
       ~matchesSecurity(lastMsg.security, subscriptions[k].securities)
  /\ signals = <<"marketData">>

\* The ExcelConnector method the step just taken called.
Closed(w) == excelCall' = [op |-> "closeLiveWorkbook", workbook |-> w, ranges |-> 0]
Created == excelCall'.op = "createLiveWorkbook"

\* C13: closeLiveWorkbook(w) unsubscribes the feeds of w's live ranges: when
\* it returns, no subscription that createLiveWorkbook(w, ...) registered is
\* in the client's registry.
C13_CloseUnsubscribes ==
  [][ \A w \in WorkbookIds :
        Closed(w) =>
          \A k \in 1..Len(subscriptions') : subscriptions'[k].workbook # w ]_vars

\* C14: no flush of w starts after closeLiveWorkbook(w) has returned: a timer
\* that was started for w before the call starts no write and no
\* 'workbookRefreshed' comes from one.
C14_NoFlushAfterClose ==
  /\ \A k \in 1..Len(writes) : ~writes[k].stale
  /\ flushed.outcome = "written" => ~flushed.stale

\* C15: at no time are two writes of the same output file in flight.
C15_FlushesSerialized ==
  \A j, k \in 1..Len(writes) :
    j # k => writes[j].filePath # writes[k].filePath

\* C16: a failed flush (the write rejects, or the workbook is not found) is
\* caught inside refreshLiveWorkbook: its promise does not reject, it emits no
\* 'workbookRefreshed', and it leaves every timer running, so that the next
\* firing tries again; 'workbookRefreshed' is emitted only by a flush whose
\* write succeeded, and for the workbook of that flush.
C16_FailedFlushCaught ==
  /\ [](flushed.outcome \in {"writeFailed", "notFound"} =>
          (~crashed /\ excelSignals = <<>>))
  /\ [](\A k \in 1..Len(excelSignals) :
          excelSignals[k][1] = "workbookRefreshed" =>
            (flushed.outcome = "written" /\ excelSignals[k][2] = flushed.workbook))
  /\ [][ flushed'.outcome \in {"writeFailed", "notFound"} =>
          (intervals' = intervals /\ updateIntervals' = updateIntervals) ]_vars

\* A write was rejected, and a timer of the workbook is still running.
C16_Witness ==
  /\ flushed.outcome = "writeFailed"
  /\ \E t \in intervals : t.workbook = flushed.workbook
  /\ ~crashed

Expected(workbookId) ==
  [rangeId \in { r \in DOMAIN received : received[r].workbook = workbookId } |->
     received[rangeId].values]

\* C18: the content a flush writes holds, for every range of the workbook, the
\* latest value received for each field.
C18_FlushReflectsTicks ==
  [][ Len(writes') = Len(writes) + 1 =>
        LET w == writes'[Len(writes')]
            expect == Expected(w.workbook)
        IN  \A rangeId \in DOMAIN expect :
              /\ rangeId \in DOMAIN w.content
              /\ w.content[rangeId] = expect[rangeId] ]_vars

\* C20: the ticks passed to a subscription's callback are exactly the inbound
\* marketData messages that match it, in arrival order, one delivery per
\* message (two identical consecutive messages give two deliveries).
C20_DeliveredInArrivalOrder ==
  \A k \in Entries :
    delivered[subscriptions[k].id] =
      SelectSeq(arrived,
                LAMBDA m : matchesSecurity(m.security, subscriptions[k].securities))

\* C21: subscribe() never stores its entry under an identifier the registry
\* already holds: an entry that a step puts in the registry is a new key, so
\* the registry grows by one.
C21_SubscribeNeverOverwrites ==
  [][ \A k \in 1..Len(subscriptions') :
        subscriptions'[k] \notin Range(subscriptions) =>
          (/\ ~Has(subscriptions, subscriptions'[k].id)
           /\ Len(subscriptions') = Len(subscriptions) + 1) ]_vars

\* C22: a client built with enableWebSocket left out opens the streaming
\* session, as one built with enableWebSocket true does.
C22_OmittedOpensSession ==
  enableWebSocket = "omitted" => (socks # <<>> /\ wsClient # 0)

\* C25: a control message is written only while the client is connected, and
\* to the socket it holds; when it is not connected, subscribe() and
\* unsubscribe() write nothing and still add, respectively delete, the entry.
C25_SendsOnlyWhenConnected ==
  /\ [][ \A i \in 1..Len(sent) :
           Len(sent'[i]) > Len(sent[i]) => (connected /\ wsClient = i) ]_vars
  /\ [](~CanSend =>
          \A id \in SubIds :
            LET added == subscribe(subscriptions, Out, CanSend,
                           [id |-> id, securities |-> <<Sec("AAPL", "NASDAQ")>>,
                            callback |-> "returns", inert |-> TRUE,
                            rangeId |-> <<>>, workbook |-> <<>>])
                removed == unsubscribe(subscriptions, Out, CanSend, id)
            IN  /\ added.out = Out
                /\ Has(added.subscriptions, id)
                /\ removed.out = Out
                /\ ~Has(removed.subscriptions, id))
  /\ [][ (~CanSend /\ subscriptions' # subscriptions) =>
          (sent' = sent /\ ~crashed') ]_vars

\* subscribe() was called on a client whose session is still being opened.
C25_Witness ==
  /\ wsClient # 0
  /\ socks[wsClient] = "CONNECTING"
  /\ ~connected
  /\ subscriptions # <<>>
  /\ sent[wsClient] = <<>>

\* C29: at most one session is alive and at most one reconnect timer is
\* pending, never both; a new session is created only when every earlier one
\* has had its 'close'.
C29_OneSessionAlive ==
  /\ [](Cardinality({ i \in 1..Len(socks) : socks[i] # "CLOSED" }) + timers <= 1)
  /\ [][ Len(socks') > Len(socks) =>
          \A i \in 1..Len(socks) : socks[i] = "CLOSED" ]_vars

\* A second session, opened by the reconnect timer after disconnect().
C29_Witness ==
  /\ Len(socks) >= 2
  /\ socks[Len(socks)] \in {"CONNECTING", "OPEN"}
  /\ disconnectCalled

\* C30: disconnect() on a connected client writes exactly one 'unsubscribe'
\* message for each subscription of the registry, all of them to the socket it
\* then closes, and leaves the registry empty.
C30_DisconnectUnsubscribesEach ==
  [][ (connected /\ wsClient # 0 /\ wsClient' = 0) =>
        LET old == sent[wsClient]
            now == sent'[wsClient]
            new == SubSeq(now, Len(old) + 1, Len(now))
        IN  /\ SubSeq(now, 1, Len(old)) = old
            /\ Len(new) = Len(subscriptions)
            /\ \A k \in Entries :
                 Count(<<"unsubscribe", subscriptions[k].id>>, new) = 1
            /\ subscriptions' = <<>>
            /\ socks[wsClient] # "CLOSED"
            /\ socks'[wsClient] = CloseCall(socks[wsClient]) ]_vars

\* disconnect() has unsubscribed two subscriptions on the session it closed.
C30_Witness ==
  /\ disconnectCalled
  /\ subscriptions = <<>>
  /\ \E i \in 1..Len(sent) :
       /\ socks[i] = "CLOSING"
       /\ \A id \in SubIds : Count(<<"unsubscribe", id>>, sent[i]) = 1

\* C26: closeLiveWorkbook(w) leaves every other workbook alone: its entry, its
\* timers and the Map entries of its timers are what they were.
C26_CloseLeavesOthers ==
  [][ \A w \in WorkbookIds :
        Closed(w) =>
          /\ \A v \in DOMAIN activeWorkbooks \ {w} :
               v \in DOMAIN activeWorkbooks' /\ activeWorkbooks'[v] = activeWorkbooks[v]
          /\ \A t \in intervals : t.workbook # w => t \in intervals'
          /\ \A rangeId \in DOMAIN updateIntervals :
               (\E t \in intervals :
                  t.id = updateIntervals[rangeId] /\ t.workbook # w)
               => rangeId \in DOMAIN updateIntervals' ]_vars

\* C27: closeLiveWorkbook(w) removes the ranges created for w from the
\* live-range table, so that the table holds ranges of open workbooks only.
C27_CloseRemovesRanges ==
  [][ \A w \in WorkbookIds :
        Closed(w) =>
          \A rangeId \in DOMAIN liveRanges' : liveRanges'[rangeId].workbook # w ]_vars

\* C28: when ExcelConnector.disconnect() returns no timer is running and the
\* three tables are empty.
C28_DisconnectCancelsTimers ==
  [][ excelCall'.op = "disconnect" =>
        /\ intervals' = {}
        /\ updateIntervals' = <<>>
        /\ activeWorkbooks' = <<>>
        /\ liveRanges' = <<>> ]_vars

\* C23: a request/response operation never rejects; a request that failed, or
\* whose response has no data array, gives success = false with an error that
\* has a code and a message; success = true comes with data; and the
\* operation leaves the registry and the session alone.
C23_RequestsNeverReject ==
  /\ [](lastResult.op # "none" =>
          /\ ~lastResult.rejected
          /\ lastResult.outcome # "okArray" =>
               (/\ ~lastResult.success
                /\ lastResult.code # Undefined
                /\ lastResult.message # Undefined)
          /\ lastResult.success => lastResult.data # Undefined)
  /\ [][ lastResult'.op # "none" =>
          (/\ subscriptions' = subscriptions
           /\ connected' = connected
           /\ socks' = socks
           /\ wsClient' = wsClient) ]_vars

\* The identifiers of the entries of a registry that match a security.
Matching(subs, security) ==
  { subs[k].id : k \in { j \in 1..Len(subs) :
                           matchesSecurity(security, subs[j].securities) } }

\* C24: the callbacks a tick runs are exactly the matching entries of the
\* registry as it was at one moment of the dispatch: before the callbacks'
\* subscribe() and unsubscribe() calls, between two of them, or after them.
C24_DispatchSeesOneRegistry ==
  [][ lastMsg'.type = "marketData"
      => LET d == forEachSubscription(subscriptions, <<>>, 1, lastMsg'.security)
         IN  \E k \in 1..Len(d.registries) :
               Range(invoked') = Matching(d.registries[k], lastMsg'.security)
    ]_vars

====
